---------------------------- MODULE Spec2Model ----------------------------
(***************************************************************************)
(* A model of the collaboration utilities of COMPOSE                       *)
(* (src/src/lib/utils/collaboration.ts): the presence table and the roster *)
(* fetch (fetchActiveEditors, updateCollaborationData,                     *)
(* removeCollaborationData, removeOtherFieldEntries) and the cache of      *)
(* broadcast channels (broadcastFieldUpdate, subscribeToFieldUpdates,      *)
(* removeBroadcastChannel), the change notifier                            *)
(* (subscribeToCollaboration), and the cursor projector of                 *)
(* src/src/lib/components/CursorIndicator.svelte (updateCursorPosition and *)
(* the component's timer).                                                 *)
(*                                                                         *)
(* Time is counted in milliseconds, as Date.now() counts it.  A nullable   *)
(* value is the empty sequence (null) or a one-element sequence.  An async *)
(* function is an action per stretch of code between two awaits; while a   *)
(* call is suspended at an await any other action may take place.          *)
(***************************************************************************)
EXTENDS Integers, Sequences, FiniteSets, TLC

(***************************************************************************)
(* Bounds of the model.                                                    *)
(***************************************************************************)
\* the number of storage mutations (upserts and deletes) issued in a run of the store
MaxOps == 3
\* the number of storage mutations issued in a run with a roster fetch
MaxFetchOps == 2
\* the number of times the clock advances in a run
MaxTicks == 1
\* the number of channels created in a run
MaxChannels == 2
\* the number of broadcastFieldUpdate calls in a run
MaxBroadcasts == 2
\* the number of subscribeToFieldUpdates calls in a run
MaxSubscribes == 1
\* the length of the longest text of a field the projector is given
MaxLen == 3
\* the number of times the projector's timer fires in a run
MaxTimerRuns == 2
\* the number of storage mutations issued in a run with a change listener
MaxNotifyOps == 2
\* the number of storage mutations in flight at a time
MaxInFlight == 2

(***************************************************************************)
(* The values the operations are called with.                              *)
(***************************************************************************)
Problems == {1, 2}
UserIds == {"u1", "u2"}
FieldNames == {"A", "B"}

Null == <<>>
Some(x) == <<x>>

\* (cursor_position, selection_start, selection_end) of an update
CursorInputs == {<<0, Null, Null>>, <<1, Some(0), Some(1)>>}

\* the staleness horizon of fetchActiveEditors, in milliseconds
StaleMs == 30000

\* what the clock advances by: just under the horizon, and the horizon
Deltas == {StaleMs - 1, StaleMs}

\* the users table: u2 has no profile row
UsersTable == {[id |-> "u1", full_name |-> Some("User One"), initials |-> Some("UO"),
                email |-> Null]}

VARIABLES
    now,        \* Date.now()
    ticks,      \* how often the clock has advanced
    rows,       \* the table problem_collaboration
    ops,        \* how many mutations may still be issued
    inFlight,   \* the mutations sent and not yet answered, in the order of their calls
    lastMut,    \* history: the last mutation the storage carried out, and the table before it
    lastCall,   \* history: the mutation called last, whether the calls before it were
                \* answered when it was made, and the storage's answer to it
    fpc,        \* fetchActiveEditors: where the call is
    fetch,      \* fetchActiveEditors: its locals and its result
    broadcastChannels,  \* the Map broadcastChannels: problem id -> channel (0: no entry)
    channels,   \* the RealtimeChannel objects created so far, in order of creation
    calls,      \* broadcastFieldUpdate: each caller's call, its place and its locals
    callsLeft,  \* how many broadcastFieldUpdate calls may still be made
    subsLeft,   \* how many subscribeToFieldUpdates calls may still be made
    closeLog,   \* history: per problem, the last removeBroadcastChannel call
    subLog,     \* history: the last subscribeToFieldUpdates call
    fieldElement,   \* CursorIndicator: the prop fieldElement (null, or the textarea)
    editor,         \* CursorIndicator: the prop editor (null, or the presence record)
    cursorPosition, \* CursorIndicator: the position the indicator is drawn at
    locals,         \* history: the locals of the last run of updateCursorPosition
    updateInterval, \* CursorIndicator: the id setInterval returned (0: null)
    timers,         \* the interval timers that are scheduled
    phase,          \* CursorIndicator: where the component is in its life
    timerRuns,      \* how often a timer has fired
    subscription,   \* subscribeToCollaboration: the problem listened to (0: no listener)
    events,         \* how many change events the listener was sent
    handlers,       \* the runs of the listener's handler, one per event, in order
    deliveries      \* history: the calls of onEditorUpdate, in order

presenceVars == <<now, ticks, rows, ops, inFlight, lastMut, lastCall, fpc, fetch>>

channelVars == <<broadcastChannels, channels, calls, callsLeft, subsLeft, closeLog, subLog>>

projectorVars == <<fieldElement, editor, cursorPosition, locals, updateInterval, timers,
                   phase, timerRuns>>

notifierVars == <<subscription, events, handlers, deliveries>>

vars == <<now, ticks, rows, ops, inFlight, lastMut, lastCall, fpc, fetch,
          broadcastChannels, channels, calls, callsLeft, subsLeft, closeLog, subLog,
          fieldElement, editor, cursorPosition, locals, updateInterval, timers,
          phase, timerRuns, subscription, events, handlers, deliveries>>

(***************************************************************************)
(* Rows of problem_collaboration.                                          *)
(***************************************************************************)
SameKey(r, p, u, f) == r.problem_id = p /\ r.user_id = u /\ r.field_name = f

NoMut == [op |-> "none", problem_id |-> 0, user_id |-> "", field_name |-> "",
          cursor_position |-> 0, selection_start |-> Null, selection_end |-> Null,
          last_seen |-> 0]

RowOf(m) == [problem_id |-> m.problem_id, user_id |-> m.user_id,
             field_name |-> m.field_name, cursor_position |-> m.cursor_position,
             selection_start |-> m.selection_start, selection_end |-> m.selection_end,
             last_seen |-> m.last_seen]

(***************************************************************************)
(* The storage's answers to the three mutations.                           *)
(***************************************************************************)
\* a mutant of UpsertRow: a plain insert, the conflict key forgotten
UpsertRowNoConflict(table, row) == table \cup {row}

\* upsert with onConflict "problem_id,user_id,field_name"
UpsertRow(table, row) ==
    {r \in table : ~SameKey(r, row.problem_id, row.user_id, row.field_name)} \cup {row}

\* delete().eq("problem_id", p).eq("user_id", u)
DeleteUserRows(table, p, u) ==
    {r \in table : ~(r.problem_id = p /\ r.user_id = u)}

\* a mutant of DeleteOtherFieldRows: the user filter forgotten
DeleteOtherFieldRowsAnyUser(table, p, u, f) ==
    {r \in table : ~(r.problem_id = p /\ r.field_name # f)}

\* delete().eq("problem_id", p).eq("user_id", u).neq("field_name", f)
DeleteOtherFieldRows(table, p, u, f) ==
    {r \in table : ~(r.problem_id = p /\ r.user_id = u /\ r.field_name # f)}

Applied(table, m) ==
    CASE m.op = "upsert" -> UpsertRow(table, RowOf(m))
      [] m.op = "remove" -> DeleteUserRows(table, m.problem_id, m.user_id)
      [] m.op = "removeOther" ->
            DeleteOtherFieldRows(table, m.problem_id, m.user_id, m.field_name)
      [] OTHER -> table

(***************************************************************************)
(* updateCollaborationData, removeCollaborationData,                       *)
(* removeOtherFieldEntries: the call builds the request (an upsert takes   *)
(* its timestamp here), sends it and awaits the storage's answer; an error *)
(* is logged and dropped.  Nothing makes a caller await one call before    *)
(* the next: several requests may be in flight, and the storage carries    *)
(* them out in any order.                                                  *)
(***************************************************************************)
\* the call sends the request and is suspended until the answer
Sent(request) ==
    /\ ops > 0
    /\ Len(inFlight) < MaxInFlight
    /\ ops' = ops - 1
    /\ inFlight' = Append(inFlight, request)
    /\ lastCall' = [req |-> request, answer |-> "none", awaited |-> inFlight = <<>>]

updateCollaborationData(p, u, f, inp) ==
    /\ Sent([op |-> "upsert", problem_id |-> p, user_id |-> u, field_name |-> f,
             cursor_position |-> inp[1], selection_start |-> inp[2],
             selection_end |-> inp[3], last_seen |-> now])
    /\ UNCHANGED <<now, ticks, rows, lastMut, fpc, fetch>>
    /\ UNCHANGED <<channelVars, projectorVars, notifierVars>>

removeCollaborationData(p, u) ==
    /\ Sent([NoMut EXCEPT !.op = "remove", !.problem_id = p, !.user_id = u])
    /\ UNCHANGED <<now, ticks, rows, lastMut, fpc, fetch>>
    /\ UNCHANGED <<channelVars, projectorVars, notifierVars>>

removeOtherFieldEntries(p, u, f) ==
    /\ Sent([NoMut EXCEPT !.op = "removeOther", !.problem_id = p, !.user_id = u,
                          !.field_name = f])
    /\ UNCHANGED <<now, ticks, rows, lastMut, fpc, fetch>>
    /\ UNCHANGED <<channelVars, projectorVars, notifierVars>>

\* the change events of a mutation for a listener on problem p: one for the
\* row an upsert inserts or updates, one for each row a delete removes
ChangeEvents(before, m, p) ==
    IF p = 0 THEN 0
    ELSE IF m.op = "upsert" THEN (IF m.problem_id = p THEN 1 ELSE 0)
    ELSE Cardinality({r \in before \ Applied(before, m) : r.problem_id = p})

\* the requests in flight without the i-th
AnsweredAt(i) == SubSeq(inFlight, 1, i - 1) \o SubSeq(inFlight, i + 1, Len(inFlight))

\* the answer to the i-th request in flight, noted if that is the last call's
LastCallAnswered(i, answer) ==
    IF i = Len(inFlight) /\ lastCall.answer = "none"
    THEN [lastCall EXCEPT !.answer = answer]
    ELSE lastCall

\* the storage carries the i-th request in flight out: error is null; the
\* listener, if there is one, is sent the change events
MutationOk(i) ==
    /\ i \in 1..Len(inFlight)
    /\ rows' = Applied(rows, inFlight[i])
    /\ lastMut' = [req |-> inFlight[i], before |-> rows]
    /\ inFlight' = AnsweredAt(i)
    /\ lastCall' = LastCallAnswered(i, "ok")
    /\ events' = events + ChangeEvents(rows, inFlight[i], subscription)
    /\ UNCHANGED <<now, ticks, ops, fpc, fetch>>
    /\ UNCHANGED <<subscription, handlers, deliveries>>
    /\ UNCHANGED <<channelVars, projectorVars>>

\* the storage answers the i-th request in flight with an error:
\* console.error, nothing else
MutationError(i) ==
    /\ i \in 1..Len(inFlight)
    /\ inFlight' = AnsweredAt(i)
    /\ lastCall' = LastCallAnswered(i, "error")
    /\ UNCHANGED <<now, ticks, rows, ops, lastMut, fpc, fetch>>
    /\ UNCHANGED <<channelVars, projectorVars, notifierVars>>

\* time passes
Tick(d) ==
    /\ ticks < MaxTicks
    /\ now' = now + d
    /\ ticks' = ticks + 1
    /\ UNCHANGED <<rows, ops, inFlight, lastMut, lastCall, fpc, fetch>>
    /\ UNCHANGED <<channelVars, projectorVars, notifierVars>>

(***************************************************************************)
(* fetchActiveEditors.                                                     *)
(***************************************************************************)
\* a mutant of ActiveRows: gte in place of gt
ActiveRowsInclusive(table, p, since) ==
    {r \in table : r.problem_id = p /\ r.last_seen >= since}

\* .eq("problem_id", p).gt("last_seen", since)
ActiveRows(table, p, since) ==
    {r \in table : r.problem_id = p /\ r.last_seen > since}

\* .order("last_seen", {ascending: false}): rows of equal last_seen come in any order
IsDescending(s) ==
    \A i \in 1..(Len(s) - 1) : s[i].last_seen >= s[i + 1].last_seen

OrderedResults(S) ==
    {s \in [1..Cardinality(S) -> S] :
        /\ \A r \in S : \E i \in 1..Cardinality(S) : s[i] = r
        /\ IsDescending(s)}

\* usersMap.get(editor.user_id) || null
ProfileOf(u) ==
    IF \E x \in UsersTable : x.id = u
    THEN Some(CHOOSE x \in UsersTable : x.id = u)
    ELSE Null

WithUsers(r, profile) ==
    [problem_id |-> r.problem_id, user_id |-> r.user_id, field_name |-> r.field_name,
     cursor_position |-> r.cursor_position, selection_start |-> r.selection_start,
     selection_end |-> r.selection_end, last_seen |-> r.last_seen, users |-> profile]

\* collaborationData.map(editor => ({...editor, users: null}))
WithoutUserData(data) == [i \in 1..Len(data) |-> WithUsers(data[i], Null)]

\* collaborationData.map(editor => ({...editor, users: usersMap.get(...) || null}))
WithUserData(data) == [i \in 1..Len(data) |-> WithUsers(data[i], ProfileOf(data[i].user_id))]

\* the place of user u in the Map (its values in insertion order), 0 when absent
IndexOfUser(acc, u) ==
    IF \E i \in 1..Len(acc) : acc[i].user_id = u
    THEN CHOOSE i \in 1..Len(acc) : acc[i].user_id = u
    ELSE 0

\* one step of the reduce: set a new user, replace only by a strictly later last_seen
KeepLatest(acc, e) ==
    LET i == IndexOfUser(acc, e.user_id) IN
    IF i = 0 THEN Append(acc, e)
    ELSE IF e.last_seen > acc[i].last_seen
         THEN [acc EXCEPT ![i] = e]
         ELSE acc

RECURSIVE ReduceFrom(_, _, _)
ReduceFrom(acc, editors, i) ==
    IF i > Len(editors) THEN acc
    ELSE ReduceFrom(KeepLatest(acc, editors[i]), editors, i + 1)

\* Array.from(editorsWithUsersMap.values())
OnePerUser(editors) == ReduceFrom(<<>>, editors, 1)

NoFetch == [problem_id |-> 0, at |-> 0, since |-> 0, data |-> <<>>, lookups |-> 0,
            path |-> "", roster |-> <<>>]

\* the call: the query is built with Date.now() - 30000 and awaited
FetchCall(p) ==
    /\ fpc \in {"idle", "done"}
    /\ fpc' = "query"
    /\ fetch' = [NoFetch EXCEPT !.problem_id = p, !.at = now, !.since = now - StaleMs]
    /\ UNCHANGED <<now, ticks, rows, ops, inFlight, lastMut, lastCall>>
    /\ UNCHANGED <<channelVars, projectorVars, notifierVars>>

\* a mutant of FetchQueryError: the error is not looked at before the users lookup
FetchQueryErrorUnchecked ==
    /\ fpc = "query"
    /\ fpc' = "users"
    /\ fetch' = [fetch EXCEPT !.path = "collabError", !.lookups = @ + 1]
    /\ UNCHANGED <<now, ticks, rows, ops, inFlight, lastMut, lastCall>>
    /\ UNCHANGED <<channelVars, projectorVars, notifierVars>>

\* the query fails: return []
FetchQueryError ==
    /\ fpc = "query"
    /\ fpc' = "done"
    /\ fetch' = [fetch EXCEPT !.path = "collabError", !.roster = <<>>]
    /\ UNCHANGED <<now, ticks, rows, ops, inFlight, lastMut, lastCall>>
    /\ UNCHANGED <<channelVars, projectorVars, notifierVars>>

\* the query answers: no rows: return []; else the users lookup is issued
FetchQueryData ==
    /\ fpc = "query"
    /\ \E data \in OrderedResults(ActiveRows(rows, fetch.problem_id, fetch.since)) :
          IF Len(data) = 0
          THEN /\ fpc' = "done"
               /\ fetch' = [fetch EXCEPT !.path = "empty", !.roster = <<>>]
          ELSE /\ fpc' = "users"
               /\ fetch' = [fetch EXCEPT !.data = data, !.lookups = @ + 1]
    /\ UNCHANGED <<now, ticks, rows, ops, inFlight, lastMut, lastCall>>
    /\ UNCHANGED <<channelVars, projectorVars, notifierVars>>

\* the users lookup fails: the rows go back as they came, with users: null
FetchUsersError ==
    /\ fpc = "users"
    /\ fpc' = "done"
    /\ fetch' = [fetch EXCEPT !.path = "usersError",
                               !.roster = WithoutUserData(fetch.data)]
    /\ UNCHANGED <<now, ticks, rows, ops, inFlight, lastMut, lastCall>>
    /\ UNCHANGED <<channelVars, projectorVars, notifierVars>>

\* the users lookup answers: combine, and reduce to one entry per user
FetchUsersData ==
    /\ fpc = "users"
    /\ fpc' = "done"
    /\ fetch' = [fetch EXCEPT !.path = "ok",
                               !.roster = OnePerUser(WithUserData(fetch.data))]
    /\ UNCHANGED <<now, ticks, rows, ops, inFlight, lastMut, lastCall>>
    /\ UNCHANGED <<channelVars, projectorVars, notifierVars>>

(***************************************************************************)
(* The broadcast channels.  A channel is known by its place in the order   *)
(* of creation.  Of a RealtimeChannel the model keeps the state the code   *)
(* reads (channel.state), how often subscribe was called on it, how many   *)
(* listeners were attached by on(), and whether supabase.removeChannel was *)
(* called on it.                                                           *)
(***************************************************************************)
\* the callers of broadcastFieldUpdate whose calls may overlap
Callers == {"b1", "b2"}

NoChannel == 0

ChannelIds == 1..Len(channels)

\* supabase.channel(`problem:${p}:updates`) followed by subscribe(): the
\* channel is joining until the server answers
NewChannel(p, nListeners) ==
    [problem_id |-> p, state |-> "joining", subscribes |-> 1,
     listeners |-> nListeners, removed |-> FALSE]

\* supabase.removeChannel(channel): the channel is unsubscribed
RemovedChannel(ch) == [ch EXCEPT !.removed = TRUE, !.state = "closed"]

StateOf(c) == IF c = NoChannel THEN "none" ELSE channels[c].state

NoCall == [pc |-> "idle", problem_id |-> 0, found |-> NoChannel, foundState |-> "none",
           channel |-> NoChannel, settled |-> FALSE, sentState |-> "none", sends |-> 0,
           result |-> ""]

\* the outcomes of channel.send: its status, or an error thrown
SendOutcomes == {"ok", "error", "timed out", "thrown"}

(***************************************************************************)
(* removeBroadcastChannel                                                  *)
(***************************************************************************)
NotClosed == [closed |-> FALSE, hadChannel |-> FALSE, inFlight |-> FALSE]

\* some broadcast call for p has created its channel and not yet cached it
CreationInFlight(p) ==
    \E b \in Callers : calls[b].pc = "subscribing" /\ calls[b].problem_id = p

\* a mutant of CacheAfterRemove: the channel is removed and the entry left
CacheAfterRemoveKept(p) == broadcastChannels

\* broadcastChannels.delete(problemId)
CacheAfterRemove(p) == [broadcastChannels EXCEPT ![p] = NoChannel]

removeBroadcastChannel(p) ==
    LET channel == broadcastChannels[p] IN
    /\ IF channel # NoChannel
       THEN /\ channels' = [channels EXCEPT ![channel] = RemovedChannel(@)]
            /\ broadcastChannels' = CacheAfterRemove(p)
       ELSE UNCHANGED <<channels, broadcastChannels>>
    /\ closeLog' = [closeLog EXCEPT ![p] = [closed |-> TRUE,
                                            hadChannel |-> channel # NoChannel,
                                            inFlight |-> CreationInFlight(p)]]
    /\ UNCHANGED <<calls, callsLeft, subsLeft, subLog>>
    /\ UNCHANGED <<presenceVars, projectorVars, notifierVars>>

(***************************************************************************)
(* broadcastFieldUpdate                                                    *)
(***************************************************************************)
\* a mutant of NotYetJoined: no state of the cached channel is waited for
NotYetJoinedIgnored(c) == FALSE

\* a mutant of NeedsNewChannel: only a closed channel is replaced
NeedsNewChannelClosedOnly(c) ==
    c = NoChannel \/ StateOf(c) = "closed"

\* !channel || channelState === "closed" || channelState === "errored"
NeedsNewChannel(c) ==
    c = NoChannel \/ StateOf(c) = "closed" \/ StateOf(c) = "errored"

\* channelState !== "joined" && channelState !== "subscribed"
NotYetJoined(c) == StateOf(c) # "joined" /\ StateOf(c) # "subscribed"

\* the call, up to its first await: the lookup; then either the old channel is
\* removed, a new one created and subscribe awaited, or the settle delay is
\* awaited, or the send is issued at once
BroadcastCall(b, p) ==
    LET channel == broadcastChannels[p]
        call == [NoCall EXCEPT !.problem_id = p, !.found = channel,
                               !.foundState = StateOf(channel)]
    IN
    /\ calls[b].pc \in {"idle", "done"}
    /\ callsLeft > 0
    /\ callsLeft' = callsLeft - 1
    /\ IF NeedsNewChannel(channel)
       THEN /\ Len(channels) < MaxChannels
            /\ channels' =
                  Append(IF channel # NoChannel
                         THEN [channels EXCEPT ![channel] = RemovedChannel(@)]
                         ELSE channels,
                         NewChannel(p, 0))
            /\ broadcastChannels' = [broadcastChannels EXCEPT ![p] = NoChannel]
            /\ calls' = [calls EXCEPT ![b] =
                            [call EXCEPT !.pc = "subscribing",
                                         !.channel = Len(channels) + 1]]
       ELSE IF NotYetJoined(channel)
       THEN /\ calls' = [calls EXCEPT ![b] =
                            [call EXCEPT !.pc = "settling", !.channel = channel]]
            /\ UNCHANGED <<channels, broadcastChannels>>
       ELSE /\ calls' = [calls EXCEPT ![b] =
                            [call EXCEPT !.pc = "sending", !.channel = channel,
                                         !.sentState = StateOf(channel),
                                         !.sends = 1]]
            /\ UNCHANGED <<channels, broadcastChannels>>
    /\ closeLog' = [closeLog EXCEPT ![p] = NotClosed]
    /\ UNCHANGED <<subsLeft, subLog>>
    /\ UNCHANGED <<presenceVars, projectorVars, notifierVars>>

\* await channel.subscribe() is over: the channel is cached, the settle delay awaited
BroadcastSubscribed(b) ==
    /\ calls[b].pc = "subscribing"
    /\ broadcastChannels' =
          [broadcastChannels EXCEPT ![calls[b].problem_id] = calls[b].channel]
    /\ calls' = [calls EXCEPT ![b].pc = "settling"]
    /\ UNCHANGED <<channels, callsLeft, subsLeft, closeLog, subLog>>
    /\ UNCHANGED <<presenceVars, projectorVars, notifierVars>>

\* the settle delay is over: channel.send is issued on the channel of the lookup
BroadcastSettled(b) ==
    /\ calls[b].pc = "settling"
    /\ calls' = [calls EXCEPT ![b].pc = "sending", ![b].settled = TRUE,
                              ![b].sentState = StateOf(calls[b].channel),
                              ![b].sends = @ + 1]
    /\ UNCHANGED <<broadcastChannels, channels, callsLeft, subsLeft, closeLog, subLog>>
    /\ UNCHANGED <<presenceVars, projectorVars, notifierVars>>

\* a channel whose subscribe threw: it is as supabase.channel() made it, not
\* subscribed and closed
NeverSubscribed(ch) == [ch EXCEPT !.subscribes = 0, !.state = "closed"]

\* channel.subscribe() throws: the catch logs the error and the call is
\* over; nothing was sent, nothing is cached
BroadcastSubscribeThrown(b) ==
    /\ calls[b].pc = "subscribing"
    /\ calls' = [calls EXCEPT ![b] = [NoCall EXCEPT !.pc = "done", !.result = "caught"]]
    /\ channels' = [channels EXCEPT ![calls[b].channel] = NeverSubscribed(@)]
    /\ UNCHANGED <<broadcastChannels, callsLeft, subsLeft, closeLog, subLog>>
    /\ UNCHANGED <<presenceVars, projectorVars, notifierVars>>

\* what the call is left with: a status other than "ok" is warned of, an error
\* thrown is caught; either way the function returns undefined
ResultOf(outcome) ==
    CASE outcome = "ok" -> "ok"
      [] outcome = "thrown" -> "caught"
      [] OTHER -> "warned"

\* a mutant of BroadcastSent: a send that did not succeed is issued once more
BroadcastSentRetried(b, outcome) ==
    /\ calls[b].pc = "sending"
    /\ calls' = IF outcome # "ok" /\ calls[b].sends < 2
                THEN [calls EXCEPT ![b].sends = @ + 1]
                ELSE [calls EXCEPT ![b] =
                        [NoCall EXCEPT !.pc = "done", !.result = ResultOf(outcome),
                                       !.sends = calls[b].sends]]
    /\ UNCHANGED <<broadcastChannels, channels, callsLeft, subsLeft, closeLog, subLog>>
    /\ UNCHANGED <<presenceVars, projectorVars, notifierVars>>

\* the send is over: a status other than "ok" is warned of, an error is caught
BroadcastSent(b, outcome) ==
    /\ calls[b].pc = "sending"
    /\ calls' = [calls EXCEPT ![b] =
                    [NoCall EXCEPT !.pc = "done", !.result = ResultOf(outcome),
                                   !.sends = calls[b].sends]]
    /\ UNCHANGED <<broadcastChannels, channels, callsLeft, subsLeft, closeLog, subLog>>
    /\ UNCHANGED <<presenceVars, projectorVars, notifierVars>>

(***************************************************************************)
(* subscribeToFieldUpdates                                                 *)
(***************************************************************************)
\* a mutant of CanReuse: a channel that is still joining is not taken as subscribed
CanReuseJoinedOnly(c) ==
    c # NoChannel /\ StateOf(c) \in {"joined", "subscribed"}

\* channel && (state === "joined" || state === "subscribed" || state === "joining")
CanReuse(c) ==
    c # NoChannel /\ StateOf(c) \in {"joined", "subscribed", "joining"}

\* channel && (state === "closed" || state === "errored")
IsStale(c) ==
    c # NoChannel /\ StateOf(c) \in {"closed", "errored"}

\* on("broadcast", ...): one more listener
WithListener(ch) == [ch EXCEPT !.listeners = @ + 1]

\* on(...).subscribe(...) on a channel that exists: subscribe is called once more
Resubscribed(ch) ==
    [ch EXCEPT !.listeners = @ + 1, !.subscribes = @ + 1, !.state = "joining"]

subscribeToFieldUpdates(p) ==
    LET channel == broadcastChannels[p] IN
    /\ subsLeft > 0
    /\ subsLeft' = subsLeft - 1
    /\ IF CanReuse(channel)
       THEN /\ channels' = [channels EXCEPT ![channel] = WithListener(@)]
            /\ UNCHANGED broadcastChannels
            /\ subLog' = [reused |-> TRUE, channel |-> channel]
       ELSE IF IsStale(channel) \/ channel = NoChannel
       THEN /\ Len(channels) < MaxChannels
            /\ channels' =
                  Append(IF channel # NoChannel
                         THEN [channels EXCEPT ![channel] = RemovedChannel(@)]
                         ELSE channels,
                         NewChannel(p, 1))
            /\ broadcastChannels' = [broadcastChannels EXCEPT ![p] = Len(channels) + 1]
            /\ subLog' = [reused |-> FALSE, channel |-> Len(channels) + 1]
       ELSE /\ channels' = [channels EXCEPT ![channel] = Resubscribed(@)]
            /\ UNCHANGED broadcastChannels
            /\ subLog' = [reused |-> FALSE, channel |-> channel]
    /\ closeLog' = [closeLog EXCEPT ![p] = NotClosed]
    /\ UNCHANGED <<calls, callsLeft>>
    /\ UNCHANGED <<presenceVars, projectorVars, notifierVars>>

(***************************************************************************)
(* The life of a channel the code does not decide: Subscribing ->          *)
(* Subscribed -> {Closed | Errored}; a closed or errored channel stays so. *)
(***************************************************************************)
Alive(c) == ~channels[c].removed /\ channels[c].state \in {"joining", "joined"}

\* the server acknowledges the subscription
ChannelJoined(c) ==
    /\ Alive(c)
    /\ channels[c].state = "joining"
    /\ channels' = [channels EXCEPT ![c].state = "joined"]
    /\ UNCHANGED <<broadcastChannels, calls, callsLeft, subsLeft, closeLog, subLog>>
    /\ UNCHANGED <<presenceVars, projectorVars, notifierVars>>

\* the subscription fails, or the connection is lost
ChannelErrored(c) ==
    /\ Alive(c)
    /\ channels' = [channels EXCEPT ![c].state = "errored"]
    /\ UNCHANGED <<broadcastChannels, calls, callsLeft, subsLeft, closeLog, subLog>>
    /\ UNCHANGED <<presenceVars, projectorVars, notifierVars>>

\* the server closes the channel
ChannelClosed(c) ==
    /\ Alive(c)
    /\ channels' = [channels EXCEPT ![c].state = "closed"]
    /\ UNCHANGED <<broadcastChannels, calls, callsLeft, subsLeft, closeLog, subLog>>
    /\ UNCHANGED <<presenceVars, projectorVars, notifierVars>>

InitChannels ==
    /\ broadcastChannels = [p \in Problems |-> NoChannel]
    /\ channels = <<>>
    /\ calls = [b \in Callers |-> NoCall]
    /\ callsLeft = MaxBroadcasts
    /\ subsLeft = MaxSubscribes
    /\ closeLog = [p \in Problems |-> NotClosed]
    /\ subLog = [reused |-> FALSE, channel |-> NoChannel]

(***************************************************************************)
(* CursorIndicator.svelte.  Of the textarea the model keeps what           *)
(* updateCursorPosition reads: its value, its bounding rectangle, its      *)
(* scroll offsets and, of its computed style, the paddings, the line       *)
(* height (null: "normal") and the font size.  Lengths are whole pixels;   *)
(* the font sizes are multiples of 5, so that 1.2 times a font size is     *)
(* whole too.  A text is a sequence of characters.                         *)
(***************************************************************************)
Chars == {"a", "\n"}

\* a text of two lines of two characters each: "ab\ncd"
ExampleText == <<"a", "b", "\n", "c", "d">>

Texts == UNION {[1..n -> Chars] : n \in 0..MaxLen} \cup {ExampleText}

Elements ==
    [value : Texts, top : {100}, left : {50}, height : {10, 30, 60}, width : {10, 100},
     scrollTop : {0, 25}, scrollLeft : {0, 5}, paddingTop : {0, 8}, paddingLeft : {0, 4},
     lineHeight : {Null, Some(20)}, fontSize : {10}]

\* editor.cursor_position: null, or an offset, which may lie beyond the text
Editors == [cursor_position : {Null} \cup {Some(n) : n \in 0..(MaxLen + 1)}]

\* the width of a character in the font of the textarea, as offsetWidth measures it
CharWidthPx == 7

Min(a, b) == IF a <= b THEN a ELSE b

Max(a, b) == IF a >= b THEN a ELSE b

\* x || 0
OrZero(x) == IF x = Null THEN 0 ELSE x[1]

\* a mutant of cursorPos: the offset is not bounded by the length of the text
cursorPosUnbounded(el, ed) == OrZero(ed.cursor_position)

\* Math.min(editor.cursor_position || 0, text.length)
cursorPos(el, ed) == Min(OrZero(ed.cursor_position), Len(el.value))

\* text.substring(0, cursorPos): substring bounds its indices by the length
textBeforeCursor(el, ed) == SubSeq(el.value, 1, Min(cursorPos(el, ed), Len(el.value)))

\* s.split("\n"): the segments between the newlines, one more than there are newlines
SplitLines(s) ==
    LET upTo[i \in 0..Len(s)] ==
            IF i = 0 THEN << <<>> >>
            ELSE IF s[i] = "\n" THEN Append(upTo[i - 1], <<>>)
            ELSE [upTo[i - 1] EXCEPT ![Len(upTo[i - 1])] = Append(@, s[i])]
    IN upTo[Len(s)]

lines(el, ed) == SplitLines(textBeforeCursor(el, ed))

\* a mutant of lineNumber: the segments are counted, not the newlines
lineNumberOfSegments(el, ed) == Len(lines(el, ed))

\* lines.length - 1
lineNumber(el, ed) == Len(lines(el, ed)) - 1

\* lines[lines.length - 1] || ""
currentLineText(el, ed) == lines(el, ed)[Len(lines(el, ed))]

\* lineMeasureDiv.offsetWidth: the width of the line's text, laid out unwrapped
lineWidth(el, ed) == Len(currentLineText(el, ed)) * CharWidthPx

\* parseFloat(style.lineHeight) || parseFloat(style.fontSize) * 1.2
lineHeight(el) ==
    IF OrZero(el.lineHeight) # 0 THEN OrZero(el.lineHeight) ELSE (el.fontSize * 12) \div 10

\* the positions before the clamps
topPosition(el, ed) ==
    el.top + el.paddingTop + (lineNumber(el, ed) * lineHeight(el)) + 2 - el.scrollTop

leftPosition(el, ed) == el.left + el.paddingLeft + lineWidth(el, ed) - el.scrollLeft

maxTop(el) == el.top + el.height - el.scrollTop - lineHeight(el)

minTop(el) == el.top - el.scrollTop

maxLeft(el) == el.left + el.width - el.scrollLeft

minLeft(el) == el.left - el.scrollLeft

\* a mutant of Clamp: the upper bound is forgotten
ClampFromBelow(v, lo, hi) == Max(v, lo)

\* Math.min(Math.max(v, lo), hi)
Clamp(v, lo, hi) == Min(Max(v, lo), hi)

\* the branch taken for an empty text: the padded corner, unclamped
EmptyTextPosition(el) ==
    [top |-> el.top + el.paddingTop + 2 - el.scrollTop,
     left |-> el.left + el.paddingLeft - el.scrollLeft]

IsEmptyCase(el, ed) == cursorPos(el, ed) = 0 /\ Len(el.value) = 0

\* what updateCursorPosition assigns to cursorPosition
updateCursorPosition(fe, ed) ==
    IF fe = Null \/ ed = Null THEN [top |-> 0, left |-> 0]
    ELSE IF IsEmptyCase(fe[1], ed[1]) THEN EmptyTextPosition(fe[1])
    ELSE [top |-> Clamp(topPosition(fe[1], ed[1]), minTop(fe[1]), maxTop(fe[1])),
          left |-> Clamp(leftPosition(fe[1], ed[1]), minLeft(fe[1]), maxLeft(fe[1]))]

NoLocals == [ran |-> FALSE, lineNumber |-> 0, lineWidth |-> 0, topPosition |-> 0,
             leftPosition |-> 0]

\* the locals of a run that went past the empty-text branch
LocalsOf(fe, ed) ==
    IF fe = Null \/ ed = Null THEN NoLocals
    ELSE IF IsEmptyCase(fe[1], ed[1]) THEN NoLocals
    ELSE [ran |-> TRUE, lineNumber |-> lineNumber(fe[1], ed[1]),
          lineWidth |-> lineWidth(fe[1], ed[1]),
          topPosition |-> topPosition(fe[1], ed[1]),
          leftPosition |-> leftPosition(fe[1], ed[1])]

\* a run of updateCursorPosition with the props as they will be
Recomputed(fe, ed) ==
    /\ cursorPosition' = updateCursorPosition(fe, ed)
    /\ locals' = LocalsOf(fe, ed)

\* $: if (fieldElement && editor) ...   $: if (editor?.cursor_position !== undefined) ...
\* (a cursor_position of the record is a number or null, never undefined)
ReactiveRuns(fe, ed) == (fe # Null /\ ed # Null) \/ ed # Null

PropNames == {"fieldElement", "editor"}

\* an assignment of a prop marks it changed when the value differs or is an
\* object: an element or a record assigned again counts, null on null does not
Invalidated(old, new) == new # old \/ new # Null

\* the props marked changed when the parent assigns those named in props
Dirty(props, fe, ed) ==
    {n \in props : IF n = "fieldElement" THEN Invalidated(fieldElement, fe)
                                         ELSE Invalidated(editor, ed)}

\* the same statements after an assignment: each runs again if a prop it
\* reads is marked changed, the first reads both, the second the record
ReactiveRunsOnChange(dirty, fe, ed) ==
    \/ dirty # {} /\ fe # Null /\ ed # Null
    \/ "editor" \in dirty /\ ed # Null

\* the component is created: the reactive statements run for the first time
ComponentInit ==
    /\ phase = "new"
    /\ phase' = "created"
    /\ IF ReactiveRuns(fieldElement, editor)
       THEN Recomputed(fieldElement, editor)
       ELSE UNCHANGED <<cursorPosition, locals>>
    /\ UNCHANGED <<fieldElement, editor, updateInterval, timers, timerRuns>>
    /\ UNCHANGED <<presenceVars, channelVars, notifierVars>>

\* setInterval: a timer with a new id
NewTimerId == Cardinality(timers) + 1

\* onMount: with both props there, a run and the start of the 100 ms timer
onMount ==
    /\ phase = "created"
    /\ phase' = "mounted"
    /\ IF fieldElement # Null /\ editor # Null
       THEN /\ Recomputed(fieldElement, editor)
            /\ updateInterval' = NewTimerId
            /\ timers' = timers \cup {NewTimerId}
       ELSE UNCHANGED <<cursorPosition, locals, updateInterval, timers>>
    /\ UNCHANGED <<fieldElement, editor, timerRuns>>
    /\ UNCHANGED <<presenceVars, channelVars, notifierVars>>

\* the parent assigns the props named in props, to fe and to ed: a prop not
\* assigned keeps its value, and the reactive statements that read a prop
\* marked changed run again
SetProps(props, fe, ed) ==
    /\ phase = "mounted"
    /\ props # {}
    /\ "fieldElement" \notin props => fe = fieldElement
    /\ "editor" \notin props => ed = editor
    /\ fieldElement' = fe
    /\ editor' = ed
    /\ IF ReactiveRunsOnChange(Dirty(props, fe, ed), fe, ed)
       THEN Recomputed(fe, ed)
       ELSE UNCHANGED <<cursorPosition, locals>>
    /\ UNCHANGED <<updateInterval, timers, phase, timerRuns>>
    /\ UNCHANGED <<presenceVars, channelVars, notifierVars>>

\* the textarea changes in place (its text is edited, it is scrolled or
\* resized): no prop is assigned and nothing of the component runs; the
\* position is as it was until the next run of updateCursorPosition
TextareaChanges(el) ==
    /\ phase \in {"created", "mounted", "destroyed"}
    /\ fieldElement # Null
    /\ el # Null
    /\ el # fieldElement
    /\ fieldElement' = el
    /\ UNCHANGED <<editor, cursorPosition, locals, updateInterval, timers, phase, timerRuns>>
    /\ UNCHANGED <<presenceVars, channelVars, notifierVars>>

\* a scheduled timer fires: updateCursorPosition runs
TimerFires(t) ==
    /\ t \in timers
    /\ timerRuns < MaxTimerRuns
    /\ timerRuns' = timerRuns + 1
    /\ Recomputed(fieldElement, editor)
    /\ UNCHANGED <<fieldElement, editor, updateInterval, timers, phase>>
    /\ UNCHANGED <<presenceVars, channelVars, notifierVars>>

\* if (updateInterval) clearInterval(updateInterval)
TimersAfterDestroy == IF updateInterval # 0 THEN timers \ {updateInterval} ELSE timers

onDestroy ==
    /\ phase = "mounted"
    /\ phase' = "destroyed"
    /\ timers' = TimersAfterDestroy
    /\ UNCHANGED <<fieldElement, editor, cursorPosition, locals, updateInterval, timerRuns>>
    /\ UNCHANGED <<presenceVars, channelVars, notifierVars>>

\* no component
InitNoProjector ==
    /\ fieldElement = Null
    /\ editor = Null
    /\ cursorPosition = [top |-> 0, left |-> 0]
    /\ locals = NoLocals
    /\ updateInterval = 0
    /\ timers = {}
    /\ phase = "none"
    /\ timerRuns = 0

(***************************************************************************)
(* subscribeToCollaboration: the listener for the changes of the rows of   *)
(* one problem.  Each change event the listener receives starts a run of   *)
(* its handler: await fetchActiveEditors(problemId), then onEditorUpdate.  *)
(* The runs overlap: each is suspended at the awaits of its fetch.         *)
(***************************************************************************)
NoSubscription == 0

\* supabase.channel(`problem:${p}`).on("postgres_changes", ...).subscribe()
subscribeToCollaboration(p) ==
    /\ subscription = NoSubscription
    /\ subscription' = p
    /\ UNCHANGED <<events, handlers, deliveries>>
    /\ UNCHANGED <<presenceVars, channelVars, projectorVars>>

\* the handler is called for the next event: fetchActiveEditors(problemId) is
\* called and its query, built with Date.now() - 30000, is awaited
ChangeEvent ==
    /\ Len(handlers) < events
    /\ handlers' = Append(handlers, [pc |-> "query", since |-> now - StaleMs,
                                     data |-> <<>>, path |-> "", roster |-> <<>>])
    /\ UNCHANGED <<subscription, events, deliveries>>
    /\ UNCHANGED <<presenceVars, channelVars, projectorVars>>

\* the fetch of run i returns editors, and callbacks.onEditorUpdate(editors) is called
Delivered(i, path, editors) ==
    /\ handlers' = [handlers EXCEPT ![i] = [pc |-> "done", since |-> @.since,
                                            data |-> @.data, path |-> path,
                                            roster |-> editors]]
    /\ deliveries' = Append(deliveries, [event |-> i, roster |-> editors])

\* a mutant of HandlerQueryError: the failed fetch ends the run with no call
\* of onEditorUpdate
HandlerQueryErrorSilent(i) ==
    /\ handlers[i].pc = "query"
    /\ handlers' = [handlers EXCEPT ![i].pc = "done", ![i].path = "collabError"]
    /\ UNCHANGED <<subscription, events, deliveries>>
    /\ UNCHANGED <<presenceVars, channelVars, projectorVars>>

\* the query of run i fails: the fetch returns []
HandlerQueryError(i) ==
    /\ handlers[i].pc = "query"
    /\ Delivered(i, "collabError", <<>>)
    /\ UNCHANGED <<subscription, events>>
    /\ UNCHANGED <<presenceVars, channelVars, projectorVars>>

\* the query of run i answers: no rows: the fetch returns []; else the users
\* lookup is awaited
HandlerQueryData(i) ==
    /\ handlers[i].pc = "query"
    /\ \E data \in OrderedResults(ActiveRows(rows, subscription, handlers[i].since)) :
          IF Len(data) = 0
          THEN Delivered(i, "empty", <<>>)
          ELSE /\ handlers' = [handlers EXCEPT ![i].pc = "users", ![i].data = data]
               /\ UNCHANGED deliveries
    /\ UNCHANGED <<subscription, events>>
    /\ UNCHANGED <<presenceVars, channelVars, projectorVars>>

\* the users lookup of run i fails
HandlerUsersError(i) ==
    /\ handlers[i].pc = "users"
    /\ Delivered(i, "usersError", WithoutUserData(handlers[i].data))
    /\ UNCHANGED <<subscription, events>>
    /\ UNCHANGED <<presenceVars, channelVars, projectorVars>>

\* the users lookup of run i answers
HandlerUsersData(i) ==
    /\ handlers[i].pc = "users"
    /\ Delivered(i, "ok", OnePerUser(WithUserData(handlers[i].data)))
    /\ UNCHANGED <<subscription, events>>
    /\ UNCHANGED <<presenceVars, channelVars, projectorVars>>

\* no listener
InitNoNotifier ==
    /\ subscription = NoSubscription
    /\ events = 0
    /\ handlers = <<>>
    /\ deliveries = <<>>

(***************************************************************************)
(* The presence store: the clients' mutations, the storage and the clock.  *)
(***************************************************************************)
InitRows(budget) ==
    /\ now = 0
    /\ ticks = 0
    /\ rows = {}
    /\ ops = budget
    /\ inFlight = <<>>
    /\ lastMut = [req |-> NoMut, before |-> {}]
    /\ lastCall = [req |-> NoMut, answer |-> "none", awaited |-> TRUE]
    /\ fpc = "idle"
    /\ fetch = NoFetch

InitPresence(budget) ==
    /\ InitRows(budget)
    /\ InitChannels
    /\ InitNoProjector
    /\ InitNoNotifier

InitStore == InitPresence(MaxOps)

\* the keys the clients write: two fields of one user, and a row of another
\* user and one of another problem in a field the first user also writes
StoreKeys == {<<1, "u1", "A">>, <<1, "u1", "B">>, <<1, "u2", "B">>, <<2, "u1", "B">>}

\* the storage's clock moves by the staleness window
StoreDeltas == {StaleMs}

NextStore ==
    \/ \E k \in StoreKeys, inp \in CursorInputs :
          updateCollaborationData(k[1], k[2], k[3], inp)
    \/ \E k \in StoreKeys : removeCollaborationData(k[1], k[2])
    \/ \E k \in StoreKeys : removeOtherFieldEntries(k[1], k[2], k[3])
    \/ \E i \in 1..Len(inFlight) : MutationOk(i)
    \/ \E i \in 1..Len(inFlight) : MutationError(i)
    \/ \E d \in StoreDeltas : Tick(d)

SpecStore == InitStore /\ [][NextStore]_vars

(***************************************************************************)
(* The presence store with a client that fetches the roster.               *)
(***************************************************************************)
InitFetch == InitPresence(MaxFetchOps)

\* the cursor plays no part in the fetch: its clients update with one value
FetchCursorInputs == {<<0, Null, Null>>}

\* the keys the clients write: two fields of one user, and a row of another
\* user and one of another problem
FetchKeys == {<<1, "u1", "A">>, <<1, "u1", "B">>, <<1, "u2", "A">>, <<2, "u1", "A">>}

NextFetch ==
    \/ \E k \in FetchKeys, inp \in FetchCursorInputs :
          updateCollaborationData(k[1], k[2], k[3], inp)
    \/ \E k \in FetchKeys : removeCollaborationData(k[1], k[2])
    \/ \E i \in 1..Len(inFlight) : MutationOk(i)
    \/ \E i \in 1..Len(inFlight) : MutationError(i)
    \/ \E d \in Deltas : Tick(d)
    \/ \E p \in Problems : FetchCall(p)
    \/ FetchQueryError
    \/ FetchQueryData
    \/ FetchUsersError
    \/ FetchUsersData

SpecFetch == InitFetch /\ [][NextFetch]_vars

(***************************************************************************)
(* The channel cache: overlapping broadcasts, subscribers, closes, and the *)
(* channels' own state changes.                                            *)
(***************************************************************************)
InitChannelCache == InitPresence(0)

\* the callers broadcast, subscribe and close for one problem
ChannelProblems == {1}

NextChannels ==
    \/ \E b \in Callers, p \in ChannelProblems : BroadcastCall(b, p)
    \/ \E b \in Callers : BroadcastSubscribed(b)
    \/ \E b \in Callers : BroadcastSubscribeThrown(b)
    \/ \E b \in Callers : BroadcastSettled(b)
    \/ \E b \in Callers, outcome \in SendOutcomes : BroadcastSent(b, outcome)
    \/ \E p \in ChannelProblems : subscribeToFieldUpdates(p)
    \/ \E p \in ChannelProblems : removeBroadcastChannel(p)
    \/ \E c \in ChannelIds : ChannelJoined(c)
    \/ \E c \in ChannelIds : ChannelErrored(c)
    \/ \E c \in ChannelIds : ChannelClosed(c)

SpecChannels == InitChannelCache /\ [][NextChannels]_vars

\* what the event loop guarantees a suspended call: the awaited subscribe
\* settles, the 100 ms timer fires, and the promise of channel.send settles
\* (with a status, "timed out" among them, or with an error)
BroadcastProgress(b) ==
    /\ WF_vars(BroadcastSubscribed(b) \/ BroadcastSubscribeThrown(b))
    /\ WF_vars(BroadcastSettled(b))
    /\ WF_vars(\E outcome \in SendOutcomes : BroadcastSent(b, outcome))

\* the broadcast calls alone, overlapping, with the channels' own state
\* changes: every branch of a call is taken (no channel cached, a channel
\* cached that is joining, joined, closed or errored)
NextBroadcasts ==
    \/ \E b \in Callers, p \in ChannelProblems : BroadcastCall(b, p)
    \/ \E b \in Callers : BroadcastSubscribed(b)
    \/ \E b \in Callers : BroadcastSubscribeThrown(b)
    \/ \E b \in Callers : BroadcastSettled(b)
    \/ \E b \in Callers, outcome \in SendOutcomes : BroadcastSent(b, outcome)
    \/ \E c \in ChannelIds : ChannelJoined(c)
    \/ \E c \in ChannelIds : ChannelErrored(c)
    \/ \E c \in ChannelIds : ChannelClosed(c)

SpecBroadcastsLive ==
    /\ InitChannelCache
    /\ [][NextBroadcasts]_vars
    /\ \A b \in Callers : BroadcastProgress(b)

(***************************************************************************)
(* The projection alone: a component is created over every textarea and    *)
(* every record, and its first run projects the cursor.                    *)
(***************************************************************************)
InitProject ==
    /\ InitRows(0)
    /\ InitChannels
    /\ InitNoNotifier
    /\ fieldElement \in {Some(el) : el \in Elements}
    /\ editor \in {Some(ed) : ed \in Editors}
    /\ cursorPosition = [top |-> 0, left |-> 0]
    /\ locals = NoLocals
    /\ updateInterval = 0
    /\ timers = {}
    /\ phase = "new"
    /\ timerRuns = 0

NextProject == ComponentInit

SpecProject == InitProject /\ [][NextProject]_vars

(***************************************************************************)
(* The life of one CursorIndicator: created with or without its props,     *)
(* mounted, its props assigned, its textarea changed in place, run by its  *)
(* timer, destroyed.                                                       *)
(***************************************************************************)
IndicatorElements ==
    {Null} \cup
    {Some([value |-> txt, top |-> 100, left |-> 50, height |-> 60, width |-> 100,
           scrollTop |-> st, scrollLeft |-> 0, paddingTop |-> 8, paddingLeft |-> 4,
           lineHeight |-> Some(20), fontSize |-> 10]) :
        txt \in {<<>>, <<"a", "\n", "a">>}, st \in {0, 25}}

IndicatorEditors ==
    {Null} \cup {Some([cursor_position |-> Some(n)]) : n \in {0, 3}}

InitIndicator ==
    /\ InitRows(0)
    /\ InitChannels
    /\ InitNoNotifier
    /\ fieldElement \in IndicatorElements
    /\ editor \in IndicatorEditors
    /\ cursorPosition = [top |-> 0, left |-> 0]
    /\ locals = NoLocals
    /\ updateInterval = 0
    /\ timers = {}
    /\ phase = "new"
    /\ timerRuns = 0

NextIndicator ==
    \/ ComponentInit
    \/ onMount
    \/ \E props \in SUBSET PropNames, fe \in IndicatorElements, ed \in IndicatorEditors :
          SetProps(props, fe, ed)
    \/ \E el \in IndicatorElements : TextareaChanges(el)
    \/ \E t \in timers : TimerFires(t)
    \/ onDestroy

SpecIndicator == InitIndicator /\ [][NextIndicator]_vars

(***************************************************************************)
(* The change notifier: clients change the rows, a listener is subscribed  *)
(* to the changes of one problem, and the runs of its handler overlap.     *)
(***************************************************************************)
InitNotifier == InitPresence(MaxNotifyOps)

\* the problem listened to, and the clients whose rows change
NotifierProblems == {1}

NotifierUsers == {"u1"}

NextNotifier ==
    \/ \E p \in NotifierProblems : subscribeToCollaboration(p)
    \/ \E p \in Problems, u \in NotifierUsers, f \in FieldNames, inp \in FetchCursorInputs :
          updateCollaborationData(p, u, f, inp)
    \/ \E p \in Problems, u \in NotifierUsers : removeCollaborationData(p, u)
    \/ \E i \in 1..Len(inFlight) : MutationOk(i)
    \/ \E i \in 1..Len(inFlight) : MutationError(i)
    \/ ChangeEvent
    \/ \E i \in 1..Len(handlers) : HandlerQueryError(i)
    \/ \E i \in 1..Len(handlers) : HandlerQueryData(i)
    \/ \E i \in 1..Len(handlers) : HandlerUsersError(i)
    \/ \E i \in 1..Len(handlers) : HandlerUsersData(i)

SpecNotifier == InitNotifier /\ [][NextNotifier]_vars

\* no more runs of the handler than rows the mutations of a run can change
MaxHandlers == MaxNotifyOps * Cardinality(FieldNames)

\* the awaited storage calls of a run of the handler settle
HandlerProgress ==
    /\ WF_vars(ChangeEvent)
    /\ \A i \in 1..MaxHandlers :
          /\ WF_vars(i <= Len(handlers) /\ (HandlerQueryError(i) \/ HandlerQueryData(i)))
          /\ WF_vars(i <= Len(handlers) /\ (HandlerUsersError(i) \/ HandlerUsersData(i)))

SpecNotifierLive == SpecNotifier /\ HandlerProgress

(***************************************************************************)
(* Properties of the roster fetch (SpecFetch).                             *)
(***************************************************************************)
Returned == fpc = "done"

RosterIndex == 1..Len(fetch.roster)

\* C3: every roster fetchActiveEditors returns holds at most one record per
\* user_id, whichever way the fetch ends.  The code returns the rows unreduced
\* when the users lookup fails.
C3_OneRecordPerUser ==
    Returned =>
        \A i, j \in RosterIndex :
            fetch.roster[i].user_id = fetch.roster[j].user_id => i = j

\* C4: of the rows the storage returned for one user, the roster keeps the one
\* with the greatest last_seen and no other: every roster entry is at least as
\* recent as every returned row of its user.  The code returns every row when
\* the users lookup fails.
C4_GreatestLastSeenKept ==
    Returned =>
        \A i \in RosterIndex : \A k \in 1..Len(fetch.data) :
            fetch.data[k].user_id = fetch.roster[i].user_id
                => fetch.data[k].last_seen <= fetch.roster[i].last_seen

\* C5: no record of a returned roster has a last_seen 30 seconds or more before
\* the time of the fetch, on the path with profiles and on the path without.
C5_NoStaleRecord ==
    Returned =>
        \A i \in RosterIndex : fetch.roster[i].last_seen > fetch.at - StaleMs

\* a roster came back although the table holds a row of the problem that was
\* stale at the time of the fetch
C5_Witness ==
    /\ Returned
    /\ fetch.path \in {"ok", "usersError"}
    /\ Len(fetch.roster) > 0
    /\ \E r \in rows : /\ r.problem_id = fetch.problem_id
                       /\ r.last_seen = fetch.at - StaleMs
                       /\ \A i \in RosterIndex : fetch.roster[i].user_id # r.user_id

\* C10: when the presence query fails the call is over at once: it has
\* returned the empty roster, no users lookup was issued, and the step that
\* takes the failure leaves the table and the mutation in flight as they were.
C10_QueryFailureYieldsEmpty ==
    /\ [](fetch.path = "collabError"
            => Returned /\ fetch.roster = <<>> /\ fetch.lookups = 0)
    /\ [][fetch'.path = "collabError" /\ fetch.path # "collabError"
            => rows' = rows /\ inFlight' = inFlight]_vars

\* the query failed while the table held rows the query would have returned
C10_Witness ==
    /\ Returned
    /\ fetch.path = "collabError"
    /\ ActiveRows(rows, fetch.problem_id, fetch.since) # {}

(***************************************************************************)
(* Properties of the mutations (SpecStore).                                *)
(***************************************************************************)
LastKeyRows ==
    {r \in rows : SameKey(r, lastMut.req.problem_id, lastMut.req.user_id,
                          lastMut.req.field_name)}

LastKeyRowsBefore ==
    {r \in lastMut.before : SameKey(r, lastMut.req.problem_id, lastMut.req.user_id,
                                    lastMut.req.field_name)}

\* the rows of the key of the call made last
LastCallKeyRows ==
    {r \in rows : SameKey(r, lastCall.req.problem_id, lastCall.req.user_id,
                          lastCall.req.field_name)}

\* the call made last was an upsert, and the storage has carried it out
LastCallUpserted == lastCall.req.op = "upsert" /\ lastCall.answer = "ok"

\* C6 as claimed: when the key was upserted twice and both calls are answered
\* (the call made last is an upsert the storage carried out, the mutation the
\* storage carried out last is an upsert of the same key, nothing is in
\* flight) the table holds exactly one row of the key, with the last_seen,
\* cursor and selection of the call made second.
C6_RowIsOfTheSecondCall ==
    (/\ LastCallUpserted
     /\ inFlight = <<>>
     /\ lastMut.req.op = "upsert"
     /\ SameKey(lastMut.req, lastCall.req.problem_id, lastCall.req.user_id,
                lastCall.req.field_name))
        => LastCallKeyRows = {RowOf(lastCall.req)}

\* C6, as it holds: after an upsert of a key that already had a row (a second
\* upsert of the key) the table holds exactly one row of that key, with the
\* last_seen, cursor and selection of the upsert the storage carried out
\* last; that is the call made second when the calls before it were answered
\* when it was made.
C6_SecondUpsertReplaces ==
    /\ (lastMut.req.op = "upsert" /\ LastKeyRowsBefore # {}) =>
          /\ Cardinality(LastKeyRows) = 1
          /\ \A r \in LastKeyRows :
                /\ r.last_seen = lastMut.req.last_seen
                /\ r.cursor_position = lastMut.req.cursor_position
                /\ r.selection_start = lastMut.req.selection_start
                /\ r.selection_end = lastMut.req.selection_end
    /\ (LastCallUpserted /\ lastCall.awaited /\ inFlight = <<>>)
          => LastCallKeyRows = {RowOf(lastCall.req)}

\* a second upsert of a key, called when the first was answered, later than
\* the first and with another cursor
C6_Witness ==
    /\ LastCallUpserted
    /\ lastCall.awaited
    /\ inFlight = <<>>
    /\ lastMut.req = lastCall.req
    /\ \E r \in LastKeyRowsBefore :
          /\ r.last_seen < lastMut.req.last_seen
          /\ r.cursor_position # lastMut.req.cursor_position
          /\ r.selection_start # lastMut.req.selection_start

\* the rows removeOtherFieldEntries is to delete: the user's rows of the
\* problem in fields other than the one kept
IsOtherField(r) ==
    /\ r.problem_id = lastMut.req.problem_id
    /\ r.user_id = lastMut.req.user_id
    /\ r.field_name # lastMut.req.field_name

\* C7: removeOtherFieldEntries deletes exactly the rows of the user in the
\* problem whose field differs from the one kept: the kept field's row, the
\* other users' rows and the other problems' rows stay as they were, and no
\* row is added.
C7_RemoveOtherKeepsTheRest ==
    lastMut.req.op = "removeOther" =>
        /\ rows \subseteq lastMut.before
        /\ \A r \in lastMut.before : r \in rows <=> ~IsOtherField(r)

\* rows for two fields of one user and a row of another user or problem:
\* the other field's row went, the kept one and the foreign one stayed
C7_Witness ==
    /\ lastMut.req.op = "removeOther"
    /\ \E r \in lastMut.before : IsOtherField(r)
    /\ \E r \in rows : SameKey(r, lastMut.req.problem_id, lastMut.req.user_id,
                               lastMut.req.field_name)

(***************************************************************************)
(* Properties of the channel cache (SpecChannels).                         *)
(***************************************************************************)
\* C1: two broadcast calls for one problem that both found no cached channel
\* and whose lookups both came before either cached a channel create one
\* channel between them: the second reuses the first's.  The code has no
\* guard: each call creates and later caches a channel of its own.
C1_OneChannelForOverlappingCalls ==
    \A a, b \in Callers :
        (/\ a # b
         /\ calls[a].pc = "subscribing" /\ calls[b].pc = "subscribing"
         /\ calls[a].problem_id = calls[b].problem_id
         /\ calls[a].found = NoChannel /\ calls[b].found = NoChannel)
            => calls[a].channel = calls[b].channel

\* the call of b has issued its send and awaits the status
Sending(b) == calls[b].pc = "sending"

\* C2 as claimed: at the moment of the send the channel sent on is neither
\* closed nor errored.
C2_NeverSendsOnDeadChannel ==
    \A b \in Callers : Sending(b) => calls[b].sentState \notin {"closed", "errored"}

\* C2 as it holds: the channel sent on is never one the call found closed or
\* errored in the cache: that one was removed and a new channel, subscribed
\* once, is sent on; and a channel found joined is sent on at once, joined.
C2_StaleChannelReplacedAtLookup ==
    \A b \in Callers :
        Sending(b) =>
            /\ calls[b].foundState \in {"closed", "errored"} =>
                  /\ calls[b].channel # calls[b].found
                  /\ channels[calls[b].found].removed
                  /\ channels[calls[b].channel].subscribes = 1
            /\ calls[b].foundState = "joined" =>
                  /\ calls[b].channel = calls[b].found
                  /\ ~calls[b].settled
                  /\ calls[b].sentState = "joined"

\* a call that found an errored channel in the cache has sent
C2_Witness ==
    \E b \in Callers :
        /\ Sending(b)
        /\ calls[b].found # NoChannel
        /\ calls[b].foundState = "errored"

\* C8 as claimed: once removeBroadcastChannel(p) was called and no broadcast
\* or subscribe call for p was made after it, no channel is cached for p.
C8_NothingCachedAfterClose ==
    \A p \in Problems : closeLog[p].closed => broadcastChannels[p] = NoChannel

\* C8 as it holds: the same, unless a broadcast call for p was awaiting its
\* subscribe when the close was called (it caches its channel afterwards);
\* the close removes (unsubscribes) the channel it finds cached and deletes
\* the entry; and a close that finds no cached channel changes neither the
\* cache nor any channel nor any call.
C8_CloseEvictsTheCachedChannel ==
    /\ [](\A p \in Problems :
            (closeLog[p].closed /\ ~closeLog[p].inFlight)
                => broadcastChannels[p] = NoChannel)
    /\ [][\A p \in Problems :
            (closeLog'[p].closed /\ closeLog'[p] # closeLog[p]) =>
                IF broadcastChannels[p] # NoChannel
                THEN /\ broadcastChannels'[p] = NoChannel
                     /\ channels'[broadcastChannels[p]].removed
                     /\ channels'[broadcastChannels[p]].state = "closed"
                ELSE UNCHANGED <<broadcastChannels, channels, calls>>]_vars

\* a close found a channel cached, with no creation in flight, while a
\* broadcast call was waiting to send on that channel
C8_Witness ==
    \E p \in Problems :
        /\ closeLog[p].closed
        /\ closeLog[p].hadChannel
        /\ ~closeLog[p].inFlight
        /\ \E b \in Callers : /\ calls[b].pc = "settling"
                              /\ calls[b].problem_id = p
                              /\ channels[calls[b].channel].removed

\* C9: a subscribeToFieldUpdates call that finds a joined or joining channel
\* cached only attaches a listener to it: no channel is created, the cache
\* entry stays, subscribe is not called; and subscribe is called at most
\* once on any channel.
C9_ReuseOnlyAttachesListener ==
    /\ [](\A c \in ChannelIds : channels[c].subscribes <= 1)
    /\ [][\A p \in Problems :
            (/\ subsLeft' # subsLeft
             /\ broadcastChannels[p] # NoChannel
             /\ StateOf(broadcastChannels[p]) \in {"joined", "joining"}) =>
                /\ Len(channels') = Len(channels)
                /\ broadcastChannels' = broadcastChannels
                /\ channels' = [channels EXCEPT ![broadcastChannels[p]].listeners = @ + 1]]_vars

\* a subscriber was attached to a channel that a broadcast call had created
\* and that was still joining or joined
C9_Witness ==
    /\ subLog.reused
    /\ channels[subLog.channel].listeners = 1
    /\ channels[subLog.channel].subscribes = 1
    /\ ~channels[subLog.channel].removed

\* the call of b is under way: suspended at one of its awaits
Suspended(b) == calls[b].pc \in {"subscribing", "settling", "sending"}

\* C11: the send of broadcastFieldUpdate is fire-and-forget: a call issues at
\* most one send; after the send is issued the call only ends (no second
\* send, no new subscribe, no new settle delay), whatever the status; a call
\* whose subscribe threw ends without a send; every call that ends has ended
\* by returning (status ok, a status warned of, or an error caught), none by
\* an error handed to the caller; and every call under way ends.
C11_FireAndForget ==
    /\ [](\A b \in Callers :
            /\ calls[b].sends <= 1
            /\ calls[b].pc = "done" => calls[b].result \in {"ok", "warned", "caught"})
    /\ [][\A b \in Callers :
            /\ (calls[b].pc = "sending" /\ calls'[b] # calls[b]) =>
                  /\ calls'[b].pc = "done"
                  /\ calls'[b].sends = 1
                  /\ UNCHANGED <<broadcastChannels, channels>>
            /\ (calls[b].pc = "subscribing" /\ calls'[b].pc = "done") =>
                  /\ calls'[b].result = "caught"
                  /\ calls'[b].sends = 0
                  /\ UNCHANGED broadcastChannels]_vars
    /\ \A b \in Callers : Suspended(b) ~> calls[b].pc = "done"

\* one call ended with a send status warned of, another with the error of its
\* subscribe caught
C11_Witness ==
    \E a, b \in Callers :
        /\ calls[a].pc = "done" /\ calls[a].result = "warned" /\ calls[a].sends = 1
        /\ calls[b].pc = "done" /\ calls[b].result = "caught" /\ calls[b].sends = 0

(***************************************************************************)
(* Properties of the projection (SpecProject).                             *)
(***************************************************************************)
TheElement == fieldElement[1]

TheEditor == editor[1]

\* the component's first run of updateCursorPosition has taken place
HasRun == phase = "created"

WithinTopBounds(t) == minTop(TheElement) <= t /\ t <= maxTop(TheElement)

\* C12 as claimed: for every text (the empty one too), every offset and every
\* box (those lower than a line too) the top lies within
\* [top - scrollTop, top + height - scrollTop - lineHeight].
C12_TopAlwaysWithinBox ==
    HasRun => WithinTopBounds(cursorPosition.top)

\* C12 as it holds: for a text that is not empty and a box at least a line
\* high the top lies within the bounds, is the raw value when that lies
\* within them and the nearer bound when not; in a box lower than a line the
\* top is the upper bound top + height - scrollTop - lineHeight, which then
\* lies under the lower one.  (For the empty text nothing is clamped.)
C12_TopClampedForTextInTallBox ==
    (HasRun /\ Len(TheElement.value) > 0) =>
        IF TheElement.height >= lineHeight(TheElement)
        THEN /\ WithinTopBounds(cursorPosition.top)
             /\ WithinTopBounds(locals.topPosition) => cursorPosition.top = locals.topPosition
             /\ locals.topPosition > maxTop(TheElement) =>
                    cursorPosition.top = maxTop(TheElement)
             /\ locals.topPosition < minTop(TheElement) =>
                    cursorPosition.top = minTop(TheElement)
        ELSE cursorPosition.top = maxTop(TheElement)

\* the raw top of a caret on a later line lay under the box, and was clamped
C12_Witness ==
    /\ HasRun
    /\ Len(TheElement.value) > 0
    /\ TheElement.height >= lineHeight(TheElement)
    /\ locals.topPosition > maxTop(TheElement)
    /\ cursorPosition.top = maxTop(TheElement)

\* the prefix of the text the caret stands after: the offset, bounded by the
\* length of the text
Prefix ==
    SubSeq(TheElement.value, 1,
           Min(OrZero(TheEditor.cursor_position), Len(TheElement.value)))

NewlinesIn(s) == Cardinality({i \in 1..Len(s) : s[i] = "\n"})

\* the place of the last newline of s, 0 when it has none
LastNewlineOf(s) ==
    IF NewlinesIn(s) = 0 THEN 0
    ELSE CHOOSE i \in 1..Len(s) : s[i] = "\n" /\ \A j \in (i + 1)..Len(s) : s[j] # "\n"

\* the rule of C13: for a text that is not empty the caret is put on the
\* line whose index is the number of newlines in the prefix, at the measured
\* width of what
\* follows the prefix's last newline: before the clamps
\* top = box.top + paddingTop + index * lineHeight + 2 - scrollTop and
\* left = box.left + paddingLeft + width - scrollLeft; and an offset beyond
\* the text gives what the offset at the end of the text gives.
C13_CaretOnLineOfNewlineCount ==
    (HasRun /\ Len(TheElement.value) > 0) =>
        /\ locals.ran
        /\ locals.lineNumber = NewlinesIn(Prefix)
        /\ locals.lineWidth = (Len(Prefix) - LastNewlineOf(Prefix)) * CharWidthPx
        /\ locals.topPosition =
              TheElement.top + TheElement.paddingTop
                + NewlinesIn(Prefix) * lineHeight(TheElement) + 2 - TheElement.scrollTop
        /\ locals.leftPosition =
              TheElement.left + TheElement.paddingLeft
                + (Len(Prefix) - LastNewlineOf(Prefix)) * CharWidthPx
                - TheElement.scrollLeft
        /\ cursorPosition =
              updateCursorPosition(fieldElement,
                                   Some([cursor_position |-> Some(Len(Prefix))]))

\* the run was on the text "ab\ncd" with the offset 4: the prefix is "ab\nc"
OnExample ==
    /\ HasRun
    /\ TheElement.value = ExampleText
    /\ TheEditor.cursor_position = Some(4)

\* C13 as claimed: the rule above, and on the text "ab\ncd" with the offset 4
\* the caret is on line 1 at the measured width of "cd".
C13_ExampleAtWidthOfWholeLine ==
    /\ C13_CaretOnLineOfNewlineCount
    /\ OnExample =>
          /\ locals.lineNumber = 1
          /\ locals.lineWidth = Len(<<"c", "d">>) * CharWidthPx

\* C13, as it holds: the rule above, by which on the text "ab\ncd" with the
\* offset 4 the caret is on line 1 at the measured width of "c", the part of
\* the prefix "ab\nc" after its newline.
C13_ExampleAtWidthOfPrefixLine ==
    /\ C13_CaretOnLineOfNewlineCount
    /\ OnExample =>
          /\ locals.ran
          /\ locals.lineNumber = 1
          /\ locals.lineWidth = Len(<<"c">>) * CharWidthPx
          /\ locals.leftPosition =
                TheElement.left + TheElement.paddingLeft + Len(<<"c">>) * CharWidthPx
                  - TheElement.scrollLeft

\* the run on the example: line 1, one character wide
C13_Witness ==
    /\ OnExample
    /\ locals.ran
    /\ locals.lineNumber = 1
    /\ locals.lineWidth = CharWidthPx

\* C14: for the empty text the position is exactly the padded corner of the
\* box, top + paddingTop + 2 - scrollTop and left + paddingLeft - scrollLeft,
\* whatever offset the record carries (none, 0, or one beyond the text) and
\* whatever the box.
C14_EmptyTextAtPaddedCorner ==
    (HasRun /\ Len(TheElement.value) = 0) =>
        /\ cursorPosition.top =
              TheElement.top + TheElement.paddingTop + 2 - TheElement.scrollTop
        /\ cursorPosition.left =
              TheElement.left + TheElement.paddingLeft - TheElement.scrollLeft

\* an empty text, an offset beyond it, and a box so low that a clamp would
\* have moved the caret
C14_Witness ==
    /\ HasRun
    /\ Len(TheElement.value) = 0
    /\ OrZero(TheEditor.cursor_position) > 0
    /\ cursorPosition.top > maxTop(TheElement)

(***************************************************************************)
(* Further properties of the channel cache (SpecChannels).                 *)
(***************************************************************************)
\* the channel cached for p is subscribing or subscribed
CachedLive(p) ==
    /\ broadcastChannels[p] # NoChannel
    /\ StateOf(broadcastChannels[p]) \in {"joining", "joined"}

\* the step is one of broadcastFieldUpdate or of subscribeToFieldUpdates
ByBroadcastOrSubscribe == calls' # calls \/ subsLeft' # subsLeft

\* C15: no step of broadcastFieldUpdate or subscribeToFieldUpdates takes a
\* channel that is joining or joined out of the cache, or unsubscribes it:
\* only removeBroadcastChannel does.  The code's set() after the awaited
\* subscribe overwrites whatever channel was cached in the meantime.
C15_OnlyCloseEvictsLiveChannel ==
    [][ByBroadcastOrSubscribe =>
          \A p \in Problems :
              CachedLive(p) =>
                  /\ broadcastChannels'[p] = broadcastChannels[p]
                  /\ ~channels'[broadcastChannels[p]].removed]_vars

\* C16: a call issues its send after its own settle delay exactly when it did
\* not find a joined channel cached at its lookup (it created the channel, or
\* found the cached one still joining); the send is issued at the lookup, with
\* no delay, only for a channel found joined; and a send is only ever issued
\* from the end of the settle delay or from such a lookup.
C16_SettleDelayUnlessJoined ==
    /\ [](\A b \in Callers :
            Sending(b) => (calls[b].settled <=> calls[b].foundState # "joined"))
    /\ [][\A b \in Callers :
            (calls[b].pc # "sending" /\ calls'[b].pc = "sending") =>
                \/ calls[b].pc = "settling"
                \/ /\ calls[b].pc \in {"idle", "done"}
                   /\ StateOf(broadcastChannels[calls'[b].problem_id]) = "joined"]_vars

\* a call found the cached channel still joining and has sent after the delay
C16_Witness ==
    \E b \in Callers :
        /\ Sending(b)
        /\ calls[b].found # NoChannel
        /\ calls[b].foundState = "joining"
        /\ calls[b].settled

\* the channel was created and subscribed and supabase.removeChannel was not
\* called on it
Live(c) == ~channels[c].removed /\ channels[c].subscribes >= 1

\* C19: whenever no broadcast call is between creating its channel and
\* caching it, every live channel is the one cached for its problem (so at
\* most one is live per problem).  In the code two overlapping calls each
\* create a channel, and the one cached first is overwritten and stays live.
C19_LiveChannelIsTheCachedOne ==
    (\A b \in Callers : calls[b].pc # "subscribing") =>
        \A c \in ChannelIds :
            Live(c) => broadcastChannels[channels[c].problem_id] = c

(***************************************************************************)
(* Properties of the change notifier (SpecNotifier, SpecNotifierLive).     *)
(***************************************************************************)
\* the calls of onEditorUpdate made by the run for event i
DeliveriesFor(i) == {k \in 1..Len(deliveries) : deliveries[k].event = i}

\* what fetchActiveEditors returns on each of its paths, from the rows its
\* query returned
ResultOfFetch(h) ==
    CASE h.path = "ok" -> OnePerUser(WithUserData(h.data))
      [] h.path = "usersError" -> WithoutUserData(h.data)
      [] OTHER -> <<>>

\* C17: for a listener on a problem, each change event of that problem's rows
\* starts one fetch and leads to one call of onEditorUpdate, with what that
\* fetch returned (the empty roster when its query failed); there are no more
\* fetches than events, no call without a run of the handler, a call is made
\* only by the step that ends a fetch, and every event sent is answered by
\* its call.
C17_OneFetchOneCallPerEvent ==
    /\ [](/\ Len(handlers) <= events
          /\ \A k \in 1..Len(deliveries) : deliveries[k].event \in 1..Len(handlers)
          /\ \A i \in 1..Len(handlers) :
                /\ Cardinality(DeliveriesFor(i)) = (IF handlers[i].pc = "done" THEN 1 ELSE 0)
                /\ \A k \in DeliveriesFor(i) :
                      /\ deliveries[k].roster = handlers[i].roster
                      /\ deliveries[k].roster = ResultOfFetch(handlers[i])
                /\ handlers[i].path = "collabError" =>
                      handlers[i].pc = "done" /\ handlers[i].roster = <<>>)
    /\ [][/\ events' # events => (subscription # NoSubscription /\ inFlight # <<>>)
          /\ deliveries' # deliveries =>
                \E i \in 1..Len(handlers) :
                    /\ handlers[i].pc # "done"
                    /\ handlers'[i].pc = "done"
                    /\ deliveries' = Append(deliveries, [event |-> i,
                                                         roster |-> handlers'[i].roster])]_vars
    /\ \A n \in 1..MaxHandlers : (events >= n) ~> (DeliveriesFor(n) # {})

\* two events were answered: one by the empty roster of a failed query while
\* the problem had rows, one by a roster with an editor
C17_Witness ==
    /\ Len(deliveries) = 2
    /\ \E i \in 1..Len(handlers) :
          /\ handlers[i].path = "collabError"
          /\ DeliveriesFor(i) # {}
          /\ \E r \in rows : r.problem_id = subscription
    /\ \E k \in 1..Len(deliveries) : Len(deliveries[k].roster) > 0

\* C20: the calls of onEditorUpdate come in the order of the events whose
\* fetches they end: the roster of an earlier event is never delivered after
\* that of a later one.  The code awaits each fetch on its own: the runs
\* overlap and end in any order.
C20_DeliveredInEventOrder ==
    \A j, k \in 1..Len(deliveries) :
        j < k => deliveries[j].event < deliveries[k].event

(***************************************************************************)
(* Properties of the component's timer (SpecIndicator).                    *)
(***************************************************************************)
\* C18: a mounted component that has its textarea and its record has exactly
\* one timer scheduled, from its mount or from the moment both props are
\* there; no component has more than one; after onDestroy none is scheduled
\* and no timer runs updateCursorPosition.  The code starts the timer in
\* onMount only, and only if both props are there then.
C18_OneTimerWhileTargetAndRecord ==
    /\ []((phase = "mounted" /\ fieldElement # Null /\ editor # Null)
            => Cardinality(timers) = 1)
    /\ [](Cardinality(timers) <= 1)
    /\ [](phase = "destroyed" => timers = {})
    /\ [][phase = "destroyed" => timerRuns' = timerRuns]_vars

====
